---- MODULE Spec2Model ----
(***************************************************************************)
(* Model of src/postgres.go (package daas).                                *)
(*                                                                         *)
(* Three parts are modelled, each with its own specification:              *)
(*   Spec    the notification channel (PGNotify): CreateChannel, the       *)
(*           connection-event hook, Listen and its event loops, Close,     *)
(*           together with the goroutine of pq.Listener that drives them;  *)
(*   SpecTx  the transaction scope (PGTx): Begin, Commit, Rollback and    *)
(*           the statements Query, QueryOne, Execute with their Print      *)
(*           variants, over database/sql's Tx;                             *)
(*   SpecRows the row layer: fetchRow, FetchRow, FetchAll, FetchOneColumn  *)
(*           and Find applied to cursors drawn from bounded sets.          *)
(* pq.Listener and database/sql are libraries: their steps are modelled    *)
(* from their documented behaviour at the place where postgres.go calls    *)
(* them.                                                                   *)
(***************************************************************************)
EXTENDS Integers, Sequences, FiniteSets, TLC

\* ---------------------------------------------------------------- bounds
NumNames == 2      \* channel names a caller may pass to Listen
NotifyCap == 2     \* capacity of the listener's Notify stream
ConnBufCap == 1    \* notifications in flight on the connection
MaxTx == 2         \* transaction scopes created by Begin
TicksPerInterval == 2  \* clock ticks in the five-minute idle interval
MaxCols == 2       \* columns of a result row
MaxRows == 3       \* rows a cursor holds
MaxArgs == 2       \* arguments of a statement

\* ------------------------------------------------------ program constants
FailCap == 2       \* make(chan error, 2)

\* time.After(time.Minute * 5): the idle interval, in clock ticks
IdleTimeout == TicksPerInterval

Names == 1..NumNames
Nil == "nil"
NilN == 0          \* the nil *pq.Notification
None == "none"
ConnErrs == {"refused", "timeout"}       \* errors of a failed connection attempt
DiscErrs == {Nil, "EOF"}                 \* error reported with a disconnect
NoEvent == [type |-> None, err |-> Nil]
NoLast == [op |-> None, a |-> 0, b |-> 0, res |-> Nil]
NoCall == [args |-> <<>>, db |-> <<>>]

VARIABLES
  \* PGNotify
  fail,          \* n.fail: the buffered values of the failure-signal channel
  failClosed,    \* close(pg.fail) has run
  \* the caller's goroutine
  pcC,           \* "create" | "idle" | "listenWait" | "closeLn"
  createErr,     \* the error CreateChannel returned
  listenName,    \* the name of the Listen call in progress
  closeCalls,    \* calls to PGNotify.Close so far
  \* pq.Listener
  pcL,           \* "connect" | "hook" | "notifyNil" | "forward" | "done"
  hookEv,        \* the event the hook has been called with
  hookRet,       \* where the listener goroutine continues after the hook
  firstEv,       \* the first event the hook was called with
  connects,      \* successful connection attempts so far, counted up to 2
  resynced,      \* the names with a running event loop when the current connection was made
  cn,            \* l.cn != nil
  linkUp,        \* the connection is alive
  lnClosed,      \* l.isClosed
  channels,      \* l.channels
  connBuf,       \* notifications received on the connection, not yet forwarded
  Notify,        \* l.Notify
  notifyClosed,  \* close(l.Notify) has run
  \* event loops
  loop,          \* loop[n]: -1, or the ticks the loop started by Listen(n) has waited
  sinceNotif,    \* ticks since any loop last took a non-nil notification from Notify
  \* the process
  panicked,      \* "none" or the panic that ended the process
  last,          \* the last call or delivery, for the properties
  \* PGTx
  stx,           \* stx[i]: the PGTx made by the i-th Begin
  sqlTx,         \* sqlTx[i]: database/sql's transaction of scope i
  ctxDone,       \* the context pg.ctx points to is cancelled
  call           \* the inputs of the last call on PGClient, PGTx or a cursor

nvars == <<fail, failClosed, pcC, createErr, listenName, closeCalls, pcL, hookEv,
           hookRet, firstEv, connects, resynced, cn, linkUp, lnClosed, channels,
           connBuf, Notify, notifyClosed, loop, sinceNotif>>
txvars == <<stx, sqlTx, ctxDone, call>>
vars == <<nvars, txvars, panicked, last>>

Alive == panicked = None

Min(a, b) == IF a < b THEN a ELSE b

\* ------------------------------------------------------------------ Init
InitNotify ==
  /\ fail = <<>> /\ failClosed = FALSE
  /\ pcC = "create" /\ createErr = Nil /\ listenName = 0 /\ closeCalls = 0
  /\ pcL = "connect" /\ hookEv = NoEvent /\ hookRet = None /\ firstEv = NoEvent
  /\ connects = 0 /\ resynced = {} /\ cn = FALSE /\ linkUp = FALSE /\ lnClosed = FALSE
  /\ channels = {} /\ connBuf = <<>> /\ Notify = <<>> /\ notifyClosed = FALSE
  /\ loop = [n \in Names |-> -1] /\ sinceNotif = 0

\* A PGTx: made by Begin or not yet; Closed; tx is TRUE when the *sql.Tx is not nil;
\* called records that Commit or Rollback was called on it.
NoTx == [made |-> FALSE, Closed |-> FALSE, tx |-> FALSE, called |-> FALSE]
\* database/sql's Tx: done, and the commits and rollbacks it sent to the database.
NoSqlTx == [done |-> FALSE, dbOps |-> 0]

InitTxVars ==
  /\ stx = [i \in 1..MaxTx |-> NoTx]
  /\ sqlTx = [i \in 1..MaxTx |-> NoSqlTx]
  /\ ctxDone = FALSE
  /\ call = NoCall

Init == InitNotify /\ InitTxVars /\ panicked = None /\ last = NoLast

\* ------------------------------------------------- the connection-event hook
\* Faulty variant: the hook reports success for every event.
HookValue_AlwaysNil(ev) == Nil

\* The value the hook sends on n.fail for an event.
HookValue(ev) == IF ev.type = "AttemptFailed" THEN ev.err ELSE Nil

\* pq.Listener.emitEvent: calls the hook synchronously on the listener goroutine.
Emit(type, err, ret) ==
  /\ hookEv' = [type |-> type, err |-> err]
  /\ hookRet' = ret
  /\ pcL' = "hook"
  /\ firstEv' = IF firstEv = NoEvent THEN [type |-> type, err |-> err] ELSE firstEv

\* The hook's send on n.fail: blocks while the buffer is full, panics on a closed channel.
Hook ==
  /\ Alive /\ pcL = "hook"
  /\ IF failClosed
       THEN /\ panicked' = "send on closed channel"
            /\ UNCHANGED <<fail, pcL, hookEv, hookRet>>
       ELSE /\ Len(fail) < FailCap
            /\ fail' = Append(fail, HookValue(hookEv))
            /\ pcL' = hookRet
            /\ hookEv' = NoEvent /\ hookRet' = None
            /\ UNCHANGED panicked
  /\ UNCHANGED <<failClosed, pcC, createErr, listenName, closeCalls,
                 firstEv, connects, resynced, cn, linkUp, lnClosed, channels, connBuf,
                 Notify, notifyClosed, loop, sinceNotif, txvars>>
  /\ last' = NoLast

\* ----------------------------------------------- pq.Listener's goroutine
\* listenerConnLoop: a connection attempt fails.
ConnectFail ==
  /\ Alive /\ pcL = "connect"
  /\ IF lnClosed
       THEN /\ pcL' = "done" /\ notifyClosed' = TRUE
            /\ UNCHANGED <<hookEv, hookRet, firstEv>>
       ELSE /\ \E e \in ConnErrs : Emit("AttemptFailed", e, "connect")
            /\ UNCHANGED notifyClosed
  /\ UNCHANGED <<fail, failClosed, pcC, createErr, listenName, closeCalls,
                 connects, resynced, cn, linkUp, lnClosed, channels, connBuf, Notify,
                 loop, sinceNotif, panicked, txvars>>
  /\ last' = NoLast

\* listenerConnLoop: a connection attempt succeeds (the subscriptions are resynced).
ConnectOK ==
  /\ Alive /\ pcL = "connect"
  /\ cn' = TRUE /\ linkUp' = TRUE /\ connects' = Min(connects + 1, 2)
  /\ resynced' = {n \in Names : loop[n] >= 0}
  /\ IF connects > 0
       THEN Emit("Reconnected", Nil, "notifyNil")
       ELSE Emit("Connected", Nil, "forward")
  /\ UNCHANGED <<fail, failClosed, pcC, createErr, listenName, closeCalls, lnClosed,
                 channels, connBuf, Notify, notifyClosed, loop, sinceNotif, panicked,
                 txvars>>
  /\ last' = NoLast

\* After a reconnect the listener sends a nil notification on Notify.
NotifyNil ==
  /\ Alive /\ pcL = "notifyNil"
  /\ Len(Notify) < NotifyCap
  /\ Notify' = Append(Notify, NilN)
  /\ pcL' = "forward"
  /\ UNCHANGED <<fail, failClosed, pcC, createErr, listenName, closeCalls, hookEv,
                 hookRet, firstEv, connects, resynced, cn, linkUp, lnClosed, channels,
                 connBuf, notifyClosed, loop, sinceNotif, panicked, txvars>>
  /\ last' = NoLast

\* The server notifies a subscribed name over the live connection.
Publish(n) ==
  /\ Alive /\ linkUp /\ n \in channels
  /\ Len(connBuf) < ConnBufCap
  /\ connBuf' = Append(connBuf, n)
  /\ UNCHANGED <<fail, failClosed, pcC, createErr, listenName, closeCalls, pcL, hookEv,
                 hookRet, firstEv, connects, resynced, cn, linkUp, lnClosed, channels,
                 Notify, notifyClosed, loop, sinceNotif, panicked, txvars>>
  /\ last' = NoLast

\* The listener forwards a notification of the connection to Notify.
Forward ==
  /\ Alive /\ pcL = "forward"
  /\ connBuf # <<>> /\ Len(Notify) < NotifyCap
  /\ Notify' = Append(Notify, Head(connBuf))
  /\ connBuf' = Tail(connBuf)
  /\ UNCHANGED <<fail, failClosed, pcC, createErr, listenName, closeCalls, pcL, hookEv,
                 hookRet, firstEv, connects, resynced, cn, linkUp, lnClosed, channels,
                 notifyClosed, loop, sinceNotif, panicked, txvars>>
  /\ last' = NoLast

\* The connection is lost.
LinkDown ==
  /\ Alive /\ linkUp
  /\ linkUp' = FALSE
  /\ UNCHANGED <<fail, failClosed, pcC, createErr, listenName, closeCalls, pcL, hookEv,
                 hookRet, firstEv, connects, resynced, cn, lnClosed, channels, connBuf,
                 Notify, notifyClosed, loop, sinceNotif, panicked, txvars>>
  /\ last' = NoLast

\* The listener sees the lost connection: disconnectCleanup, then the event
\* (or the end of the goroutine, which closes Notify, when the listener is closed).
Disconnected ==
  /\ Alive /\ pcL = "forward"
  /\ connBuf = <<>> /\ ~linkUp
  /\ cn' = FALSE
  /\ IF lnClosed
       THEN /\ pcL' = "done" /\ notifyClosed' = TRUE
            /\ UNCHANGED <<hookEv, hookRet, firstEv>>
       ELSE /\ \E e \in DiscErrs : Emit("Disconnected", e, "connect")
            /\ UNCHANGED notifyClosed
  /\ UNCHANGED <<fail, failClosed, pcC, createErr, listenName, closeCalls,
                 connects, resynced, linkUp, lnClosed, channels, connBuf, Notify, loop,
                 sinceNotif, panicked, txvars>>
  /\ last' = NoLast

\* ------------------------------------------------------------ CreateChannel
\* err := <-n.fail; return n, err
CreateReturn ==
  /\ Alive /\ pcC = "create"
  /\ fail # <<>>
  /\ createErr' = Head(fail)
  /\ fail' = Tail(fail)
  /\ pcC' = "idle"
  /\ last' = [op |-> "CreateChannel", a |-> 0, b |-> 0, res |-> Head(fail)]
  /\ UNCHANGED <<failClosed, listenName, closeCalls, pcL, hookEv, hookRet, firstEv,
                 connects, resynced, cn, linkUp, lnClosed, channels, connBuf, Notify,
                 notifyClosed, loop, sinceNotif, panicked, txvars>>

\* ------------------------------------------------------------------ Listen
\* pq.Listener.Close as called from postgres.go: closes the connection, marks the listener closed.
LnClose ==
  /\ lnClosed' = TRUE
  /\ linkUp' = IF lnClosed THEN linkUp ELSE FALSE

\* What pq.Listener.Close returns.
LnCloseResult == IF lnClosed THEN "errListenerClosed" ELSE Nil

\* Faulty variant: the error is returned without closing the listener.
ListenFailed_NoClose(n, err) ==
  /\ last' = [op |-> "Listen", a |-> n, b |-> 0, res |-> err]
  /\ pcC' = "idle"
  /\ UNCHANGED <<lnClosed, linkUp, loop, channels, listenName>>

\* Faulty variant: closing the listener also ends the event loops.
ListenFailed_StopsLoops(n, err) ==
  /\ LnClose
  /\ last' = [op |-> "Listen", a |-> n, b |-> 0, res |-> err]
  /\ pcC' = "idle"
  /\ loop' = [l \in Names |-> -1]
  /\ UNCHANGED <<channels, listenName>>

\* if err := pg.ln.Listen(channelName); err != nil { pg.ln.Close(); return err }
ListenFailed(n, err) ==
  /\ LnClose
  /\ last' = [op |-> "Listen", a |-> n, b |-> 0, res |-> err]
  /\ pcC' = "idle"
  /\ UNCHANGED <<loop, channels, listenName>>

\* go func() { for { select ... } }(); return nil
ListenOK(n) ==
  /\ loop' = [loop EXCEPT ![n] = 0]
  /\ last' = [op |-> "Listen", a |-> n, b |-> 0, res |-> Nil]
  /\ pcC' = "idle"
  /\ UNCHANGED <<lnClosed, linkUp>>

\* PGNotify.Listen up to the point where pq.Listener.Listen returns or waits for a connection.
ListenCall(n) ==
  /\ Alive /\ pcC = "idle"
  /\ \/ /\ lnClosed
        /\ ListenFailed(n, "errListenerClosed")
     \/ /\ ~lnClosed /\ n \in channels
        /\ ListenFailed(n, "ErrChannelAlreadyOpen")
     \/ /\ ~lnClosed /\ n \notin channels /\ cn /\ linkUp
        /\ ListenFailed(n, "pqError")                 \* the server rejects LISTEN
     \/ /\ ~lnClosed /\ n \notin channels /\ cn
        /\ channels' = channels \cup {n}
        /\ ListenOK(n)
        /\ UNCHANGED listenName
     \/ /\ ~lnClosed /\ n \notin channels /\ ~cn  \* waits until the listener has a connection
        /\ channels' = channels \cup {n}
        /\ listenName' = n
        /\ pcC' = "listenWait"
        /\ last' = NoLast
        /\ UNCHANGED <<lnClosed, linkUp, loop>>
  /\ UNCHANGED <<fail, failClosed, createErr, closeCalls, pcL, hookEv, hookRet, firstEv,
                 connects, resynced, cn, connBuf, Notify, notifyClosed, sinceNotif, panicked,
                 txvars>>

\* pq.Listener.Listen returns once the listener has a connection (or was closed).
ListenWake ==
  /\ Alive /\ pcC = "listenWait"
  /\ cn \/ lnClosed
  /\ IF lnClosed
       THEN ListenFailed(listenName, "errListenerClosed")
       ELSE ListenOK(listenName) /\ UNCHANGED <<channels, listenName>>
  /\ UNCHANGED <<fail, failClosed, createErr, closeCalls, pcL, hookEv, hookRet, firstEv,
                 connects, resynced, cn, connBuf, Notify, notifyClosed, sinceNotif, panicked,
                 txvars>>

\* ------------------------------------------------------------------- Close
\* Faulty variant: a second close is silently skipped.
ClosePanics_Guarded(closed) == FALSE

\* close(pg.fail) panics when the channel is already closed
ClosePanics(closed) == closed

\* close(pg.fail)
CloseFail ==
  /\ Alive /\ pcC = "idle"
  /\ closeCalls' = Min(closeCalls + 1, 2)
  /\ IF ClosePanics(failClosed)
       THEN /\ panicked' = "close of closed channel"
            /\ UNCHANGED <<failClosed, pcC>>
       ELSE /\ failClosed' = TRUE
            /\ pcC' = "closeLn"
            /\ UNCHANGED panicked
  /\ last' = [op |-> "Close", a |-> closeCalls + 1, b |-> 0, res |-> None]
  /\ UNCHANGED <<fail, createErr, listenName, pcL, hookEv, hookRet, firstEv,
                 connects, resynced, cn, linkUp, lnClosed, channels, connBuf, Notify,
                 notifyClosed, loop, sinceNotif, txvars>>

\* return pg.ln.Close()
CloseLn ==
  /\ Alive /\ pcC = "closeLn"
  /\ LnClose
  /\ last' = [op |-> "CloseReturn", a |-> closeCalls, b |-> 0, res |-> LnCloseResult]
  /\ pcC' = "idle"
  /\ UNCHANGED <<fail, failClosed, createErr, listenName, closeCalls, pcL, hookEv,
                 hookRet, firstEv, connects, resynced, cn, channels, connBuf, Notify,
                 notifyClosed, loop, sinceNotif, panicked, txvars>>

\* ------------------------------------------------------------ the event loop
\* case e := <-pg.ln.Notify: a buffered value, or nil from the closed stream.
LoopRecv(l) ==
  /\ Alive /\ loop[l] >= 0
  /\ Notify # <<>> \/ notifyClosed
  /\ LET e == IF Notify # <<>> THEN Head(Notify) ELSE NilN
     IN  /\ Notify' = IF Notify # <<>> THEN Tail(Notify) ELSE Notify
         /\ last' = IF e = NilN
                      THEN [op |-> "skip", a |-> l, b |-> e, res |-> Nil]
                      ELSE [op |-> "callback", a |-> l, b |-> e, res |-> Nil]
         /\ sinceNotif' = IF e = NilN THEN sinceNotif ELSE 0
  /\ loop' = [loop EXCEPT ![l] = 0]
  /\ UNCHANGED <<fail, failClosed, pcC, createErr, listenName, closeCalls, pcL, hookEv,
                 hookRet, firstEv, connects, resynced, cn, linkUp, lnClosed, channels,
                 connBuf, notifyClosed, panicked, txvars>>

\* case <-time.After(time.Minute * 5): go pg.ln.Ping()
LoopPing(l) ==
  /\ Alive /\ loop[l] = IdleTimeout
  /\ loop' = [loop EXCEPT ![l] = 0]
  /\ last' = [op |-> "ping", a |-> l, b |-> sinceNotif, res |-> Nil]
  /\ UNCHANGED <<fail, failClosed, pcC, createErr, listenName, closeCalls, pcL, hookEv,
                 hookRet, firstEv, connects, resynced, cn, linkUp, lnClosed, channels,
                 connBuf, Notify, notifyClosed, sinceNotif, panicked, txvars>>

\* A clock tick passes; a loop that has a ready case in its select (a fired timer,
\* a buffered notification) takes it first.
Tick ==
  /\ Alive
  /\ \E l \in Names : loop[l] >= 0
  /\ \A l \in Names : loop[l] < IdleTimeout
  /\ Notify = <<>>
  /\ loop' = [l \in Names |-> IF loop[l] >= 0 THEN loop[l] + 1 ELSE loop[l]]
  /\ sinceNotif' = Min(sinceNotif + 1, IdleTimeout)
  /\ UNCHANGED <<fail, failClosed, pcC, createErr, listenName, closeCalls, pcL, hookEv,
                 hookRet, firstEv, connects, resynced, cn, linkUp, lnClosed, channels,
                 connBuf, Notify, notifyClosed, panicked, txvars>>
  /\ last' = NoLast

\* ------------------------------------------------------------------- PGTx
\* What pg.DB.BeginTx can return: the context's error once it is cancelled.
BeginTxErrs == IF ctxDone THEN {"context canceled"} ELSE {Nil, "connErr"}

\* Faulty variant: a failed BeginTx is tried a second time.
BeginCall_Retry(outs) ==
  IF outs[1] = Nil THEN [err |-> outs[1], calls |-> 1] ELSE [err |-> outs[2], calls |-> 2]

\* stx, err := pg.DB.BeginTx(...): called once; outs[k] is what a k-th call would return
BeginCall(outs) == [err |-> outs[1], calls |-> 1]

\* pgx := PGTx{tx: stx, ctx: pg.ctx}; return &pgx, err
Begin(i) ==
  /\ Alive /\ ~stx[i].made
  /\ \A j \in 1..(i - 1) : stx[j].made
  /\ \E outs \in BeginTxErrs \X BeginTxErrs :
       LET r == BeginCall(outs)
       IN  /\ stx' = [stx EXCEPT ![i] = [made |-> TRUE, Closed |-> FALSE,
                                         tx |-> (r.err = Nil), called |-> FALSE]]
           /\ last' = [op |-> "Begin", a |-> i, b |-> r.calls, res |-> r.err]
           /\ call' = [args |-> <<>>, db |-> outs]
  /\ UNCHANGED <<nvars, sqlTx, ctxDone, panicked>>

\* sql.Tx.Commit: <<result, whether a COMMIT reaches the database>>.
TxCommit(t) ==
  IF ctxDone THEN {<<IF t.done THEN "ErrTxDone" ELSE "context canceled", FALSE>>}
  ELSE IF t.done THEN {<<"ErrTxDone", FALSE>>}
  ELSE {<<Nil, TRUE>>, <<"driverErr", TRUE>>}

\* sql.Tx.Rollback: <<result, whether a ROLLBACK reaches the database>>.
TxRollback(t) ==
  IF t.done THEN {<<"ErrTxDone", FALSE>>}
  ELSE {<<Nil, TRUE>>, <<"driverErr", TRUE>>}

\* The sql.Tx after a Commit or Rollback that did or did not reach the database.
TxAfter(t, sent) ==
  IF sent THEN [done |-> TRUE, dbOps |-> Min(t.dbOps + 1, 2)] ELSE t

\* Faulty variant: the flag is set from the outcome of the underlying call.
SetClosed_OnSuccess(t, err) == [t EXCEPT !.Closed = (err = Nil), !.called = TRUE]

\* stx.Closed = true, set before the underlying call (err is what that call goes on to return)
SetClosed(t, err) == [t EXCEPT !.Closed = TRUE, !.called = TRUE]

\* Faulty variant: a call on a finished transaction reports success.
TerminalResult_Idempotent(r) == IF r = "ErrTxDone" THEN Nil ELSE r

\* return stx.tx.Commit() / return stx.tx.Rollback()
TerminalResult(r) == r

\* Commit or Rollback on scope i: outcomes is what the sql.Tx call can do.
Terminal(op, i, outcomes) ==
  /\ Alive /\ stx[i].made
  /\ IF ~stx[i].tx
       THEN \* a nil *sql.Tx: the call dereferences it
            /\ stx' = [stx EXCEPT ![i] = SetClosed(@, "panic")]
            /\ panicked' = "nil pointer dereference"
            /\ last' = [op |-> op, a |-> i, b |-> 0, res |-> "panic"]
            /\ UNCHANGED sqlTx
       ELSE \E o \in outcomes :
            /\ stx' = [stx EXCEPT ![i] = SetClosed(@, o[1])]
            /\ sqlTx' = [sqlTx EXCEPT ![i] = TxAfter(@, o[2])]
            /\ last' = [op |-> op, a |-> i, b |-> IF sqlTx[i].done THEN 1 ELSE 0,
                        res |-> TerminalResult(o[1])]
            /\ UNCHANGED panicked
  /\ call' = NoCall
  /\ UNCHANGED <<nvars, ctxDone>>

Commit(i) == Terminal("Commit", i, TxCommit(sqlTx[i]))

Rollback(i) == Terminal("Rollback", i, TxRollback(sqlTx[i]))

\* database/sql rolls an open transaction back when its context is cancelled.
AwaitDone(i) ==
  /\ Alive /\ ctxDone
  /\ stx[i].made /\ stx[i].tx /\ ~sqlTx[i].done
  /\ sqlTx' = [sqlTx EXCEPT ![i] = TxAfter(@, TRUE)]
  /\ last' = NoLast /\ call' = NoCall
  /\ UNCHANGED <<nvars, stx, ctxDone, panicked>>

\* The caller cancels the context that Connect stored in pg.ctx.
CtxCancel ==
  /\ Alive /\ ~ctxDone
  /\ ctxDone' = TRUE
  /\ last' = NoLast /\ call' = NoCall
  /\ UNCHANGED <<nvars, stx, sqlTx, panicked>>

\* ------------------------------------------------------- rows and cursors
\* A value as the driver hands it to Scan: its Go type and a code of its value
\* (int64: the number; float64: the number in tenths; string and []uint8: an index
\* into Texts, 0 for the empty text; bool: 0 or 1; time.Time: seconds after
\* 1970-01-01T00:00:00Z). uint64 stands for the types fetchRow does not know.
DriverVals ==
  { [t |-> "nil", v |-> 0], [t |-> "int64", v |-> 7], [t |-> "int64", v |-> -12],
    [t |-> "float64", v |-> 15], [t |-> "string", v |-> 0], [t |-> "string", v |-> 2],
    [t |-> "[]uint8", v |-> 1], [t |-> "bool", v |-> 1], [t |-> "time.Time", v |-> 5],
    [t |-> "uint64", v |-> 7] }

ColNames == {"a", "b"}
Texts == <<"x", "7">>
Digits == <<"0", "1", "2", "3", "4", "5", "6", "7", "8", "9">>

\* fmt.Sprint of an int64: the decimal digits, with a sign for a negative number
RECURSIVE FormatInt(_)
FormatInt(n) ==
  IF n < 0 THEN "-" \o FormatInt(0 - n)
  ELSE IF n < 10 THEN Digits[n + 1]
  ELSE FormatInt(n \div 10) \o Digits[(n % 10) + 1]

\* fmt.Sprint of a float64 given in tenths: the shortest decimal that reads back
FormatFloat(n) ==
  IF n % 10 = 0 THEN FormatInt(n \div 10)
  ELSE FormatInt(n \div 10) \o "." \o Digits[(n % 10) + 1]

\* the text of a string, or of the bytes of a []uint8
TextOf(k) == IF k = 0 THEN "" ELSE Texts[k]

\* fmt.Sprintf("%t", b)
FormatBool(b) == IF b = 1 THEN "true" ELSE "false"

\* Format(time.RFC3339Nano) of an instant in the first minute of 1970, UTC
FormatTime(sec) ==
  "1970-01-01T00:00:" \o Digits[(sec \div 10) + 1] \o Digits[(sec % 10) + 1] \o "Z"

\* Faulty variant: a value of an unknown type is rendered like an int64.
Normalize_UnknownAsInt(val) ==
  IF val.t = "nil" THEN ""
  ELSE CASE val.t = "int64" -> FormatInt(val.v)
         [] val.t = "float64" -> FormatFloat(val.v)
         [] val.t = "string" -> TextOf(val.v)
         [] val.t = "[]uint8" -> TextOf(val.v)
         [] val.t = "bool" -> FormatBool(val.v)
         [] val.t = "time.Time" -> FormatTime(val.v)
         [] OTHER -> FormatInt(val.v)

\* the type switch of fetchRow on one scanned value
Normalize(val) ==
  IF val.t = "nil" THEN ""
  ELSE CASE val.t = "int64" -> FormatInt(val.v)
         [] val.t = "float64" -> FormatFloat(val.v)
         [] val.t = "string" -> TextOf(val.v)
         [] val.t = "[]uint8" -> TextOf(val.v)
         [] val.t = "bool" -> FormatBool(val.v)
         [] val.t = "time.Time" -> FormatTime(val.v)
         [] OTHER -> ""

\* A PGRow: a Go map from column names to strings, or the nil map.
EmptyMap == [c \in {} |-> ""]
NilRow == [isNil |-> TRUE, m |-> EmptyMap]
MakeRow(m) == [isNil |-> FALSE, m |-> m]

\* resultMap[k] = v
MapPut(m, k, v) == [c \in (DOMAIN m) \cup {k} |-> IF c = k THEN v ELSE m[c]]

\* row[k]: a key the map does not hold reads as the zero value
MapGet(m, k) == IF k \in DOMAIN m THEN m[k] ELSE ""

\* for i, val := range values { resultMap[columns[i]] = ... }
RECURSIVE DecodeFrom(_, _, _, _)
DecodeFrom(columns, values, i, resultMap) ==
  IF i > Len(values) THEN resultMap
  ELSE DecodeFrom(columns, values, i + 1,
                  MapPut(resultMap, columns[i], Normalize(values[i])))

\* A *sql.Rows: the column names, the rows the query produced, the number of rows
\* Next has stepped over, and whether it is closed. A produced row holds the
\* driver's values and what goes wrong when it is read: nothing, a failing Scan,
\* or the cursor being closed under the reader (its context was cancelled).
RowOf(values) == [vals |-> values, fault |-> Nil]
Cursor(columns, data) == [cols |-> columns, data |-> data, pos |-> 0, closed |-> FALSE]

\* rows.Next()
RowsNext(cur) ==
  IF cur.closed THEN [ok |-> FALSE, cur |-> cur]
  ELSE IF cur.pos < Len(cur.data)
    THEN [ok |-> TRUE, cur |-> [cur EXCEPT !.pos = @ + 1]]
    ELSE [ok |-> FALSE, cur |-> [cur EXCEPT !.closed = TRUE]]

\* rows.Close()
RowsClose(cur) == [cur EXCEPT !.closed = TRUE]

\* fetchRow(rows) on the row Next has stepped to
fetchRow(cur) ==
  LET raw == cur.data[cur.pos]
  IN  IF raw.fault = "closed"
        THEN [row |-> NilRow, err |-> "FetchRow::Columns::" \o "sql: Rows are closed"]
      ELSE IF raw.fault = "ErrNoRows"
        THEN [row |-> MakeRow(EmptyMap), err |-> "FetchRow::ErrNoRows: " \o raw.fault]
      ELSE IF raw.fault # Nil
        THEN [row |-> NilRow, err |-> "FetchRow::Scan: " \o raw.fault]
      ELSE [row |-> MakeRow(DecodeFrom(cur.cols, raw.vals, 1, EmptyMap)), err |-> Nil]

\* the cursor after fetchRow has read the row it stands on
AfterFetch(cur) ==
  IF cur.data[cur.pos].fault = "closed" THEN RowsClose(cur) ELSE cur

\* Faulty variant: a new row is put in front of the rows fetched so far.
AppendRow_InFront(result, data) == <<data>> \o result

\* result = append(result, data)
AppendRow(result, data) == Append(result, data)

\* Faulty variant: the rows decoded before the failure are returned.
FetchAllFailed_Partial(result) == [rows |-> result, err |-> Nil]

\* if err != nil { return PGRecord{}, nil }
FetchAllFailed(result) == [rows |-> <<>>, err |-> Nil]

\* for rows.Next() { data, err := stx.FetchRow(rows); ... }; return result, nil
RECURSIVE FetchAllFrom(_, _)
FetchAllFrom(cur, result) ==
  LET n == RowsNext(cur)
  IN  IF ~n.ok THEN [rows |-> result, err |-> Nil, cur |-> n.cur]
      ELSE LET d == fetchRow(n.cur)
               f == FetchAllFailed(result)
           IN  IF d.err # Nil
                 THEN [rows |-> f.rows, err |-> f.err, cur |-> AfterFetch(n.cur)]
                 ELSE FetchAllFrom(n.cur, AppendRow(result, d.row))

\* result := []PGRow{}; ...
FetchAll(cur) == FetchAllFrom(cur, <<>>)

\* FetchOneColumn: as FetchAll, keeping data[columnName] of every row
RECURSIVE FetchOneColumnFrom(_, _, _)
FetchOneColumnFrom(cur, columnName, result) ==
  LET n == RowsNext(cur)
  IN  IF ~n.ok THEN [rows |-> result, err |-> Nil, cur |-> n.cur]
      ELSE LET d == fetchRow(n.cur)
           IN  IF d.err # Nil
                 THEN [rows |-> <<>>, err |-> Nil, cur |-> AfterFetch(n.cur)]
                 ELSE FetchOneColumnFrom(n.cur, columnName,
                                         Append(result, MapGet(d.row.m, columnName)))

FetchOneColumn(cur, columnName) == FetchOneColumnFrom(cur, columnName, <<>>)

\* for i := 0; i < len(row); i++ { if row[i][columnName] == compareValue { return true } }
RECURSIVE FindFrom(_, _, _, _)
FindFrom(row, i, columnName, compareValue) ==
  IF i > Len(row) THEN FALSE
  ELSE IF MapGet(row[i].m, columnName) = compareValue THEN TRUE
  ELSE FindFrom(row, i + 1, columnName, compareValue)

Find(row, columnName, compareValue) == FindFrom(row, 1, columnName, compareValue)

\* Faulty variant: a query without rows gives no row and no error.
EmptyRecord_NoError(cur) == [row |-> NilRow, err |-> Nil, cur |-> cur]

\* return nil, fmt.Errorf("empty record")
EmptyRecord(cur) == [row |-> NilRow, err |-> "empty record", cur |-> cur]

\* The body of QueryOne and QueryOnePrint after sctxQuery has returned q.err and,
\* when that is nil, the cursor q.cur.
QueryOneRows(q) ==
  IF q.err # Nil
    THEN [row |-> NilRow, err |-> "QueryOne::" \o q.err, cur |-> q.cur]
  ELSE LET n == RowsNext(q.cur)
       IN  IF ~n.ok THEN EmptyRecord(n.cur)
           ELSE LET d == fetchRow(n.cur)
                IN  [row |-> d.row, err |-> d.err, cur |-> RowsClose(n.cur)]

\* The cursors the functions are applied to: one row of every combination of
\* column names and driver values, and every short sequence of rows of one
\* column, decodable or not.
ColSeqs == UNION {[1..n -> ColNames] : n \in 1..MaxCols}
DecodeCursors ==
  UNION {{Cursor(cs, <<RowOf(vs)>>) : vs \in [1..Len(cs) -> DriverVals]} : cs \in ColSeqs}
IterRows ==
  {RowOf(<<v>>) : v \in {[t |-> "int64", v |-> 7], [t |-> "string", v |-> 0]}}
    \cup {[vals |-> <<[t |-> "nil", v |-> 0]>>, fault |-> f] : f \in {"scanErr", "closed"}}
IterCursors ==
  {Cursor(<<"a">>, d) : d \in UNION {[1..n -> IterRows] : n \in 0..MaxRows}}
Cursors == DecodeCursors \cup IterCursors

\* The column names and values Find and FetchOneColumn are asked for.
FindCols == ColNames \cup {"c"}
FindVals == {"", "7", "x"}

InitRows ==
  /\ InitNotify
  /\ stx = [i \in 1..MaxTx |-> NoTx]
  /\ sqlTx = [i \in 1..MaxTx |-> NoSqlTx]
  /\ ctxDone = FALSE
  /\ panicked = None /\ last = NoLast
  /\ call \in {[args |-> <<>>, db |-> c] : c \in Cursors}

\* if rows.Next() { row, err := stx.FetchRow(rows) }
FetchRowOp ==
  /\ last.op \in {None, "FetchRow"}
  /\ LET n == RowsNext(call.db)
     IN  /\ n.ok
         /\ last' = [op |-> "FetchRow", a |-> n.cur.pos, b |-> 0, res |-> fetchRow(n.cur)]
         /\ call' = [args |-> <<>>, db |-> AfterFetch(n.cur)]
  /\ UNCHANGED <<nvars, stx, sqlTx, ctxDone, panicked>>

\* record, err := stx.FetchAll(rows), over the rows that remain
FetchAllOp ==
  /\ last.op \in {None, "FetchRow"}
  /\ LET r == FetchAll(call.db)
     IN  /\ last' = [op |-> "FetchAll", a |-> call.db.pos, b |-> r.cur.pos,
                     res |-> [rows |-> r.rows, err |-> r.err]]
         /\ call' = [args |-> <<>>, db |-> r.cur]
  /\ UNCHANGED <<nvars, stx, sqlTx, ctxDone, panicked>>

\* set, err := stx.FetchOneColumn(rows, columnName)
FetchOneColumnOp(columnName) ==
  /\ last.op \in {None, "FetchRow"}
  /\ LET r == FetchOneColumn(call.db, columnName)
     IN  /\ last' = [op |-> "FetchOneColumn", a |-> call.db.pos, b |-> r.cur.pos,
                     res |-> [rows |-> r.rows, err |-> r.err]]
         /\ call' = [args |-> <<columnName>>, db |-> r.cur]
  /\ UNCHANGED <<nvars, stx, sqlTx, ctxDone, panicked>>

\* record.Find(columnName, compareValue) on the RecordSet FetchAll has returned
FindOp(columnName, compareValue) ==
  /\ last.op = "FetchAll"
  /\ last' = [op |-> "Find", a |-> 0, b |-> 0,
              res |-> Find(last.res.rows, columnName, compareValue)]
  /\ call' = [args |-> <<columnName, compareValue, last.res.rows>>, db |-> call.db]
  /\ UNCHANGED <<nvars, stx, sqlTx, ctxDone, panicked>>

\* ------------------------------------------------- statements on a scope
\* The Go types of the arguments of a statement.
ArgTypes == {"string", "int64"}
ArgLists == UNION {[1..n -> ArgTypes] : n \in 0..MaxArgs}

\* The cursors a query of QueryOne can give: no row, a row, a row whose Scan
\* fails, a row read after the cursor was closed.
TxCursors ==
  {Cursor(<<"a">>, <<>>)} \cup {Cursor(<<"a">>, <<r>>) : r \in IterRows}

\* sql.Tx.QueryContext and sql.Tx.ExecContext: <<result, whether the statement
\* reaches the database>>. The context is looked at first, then the transaction.
TxExec(t) ==
  IF ctxDone THEN {<<"context canceled", FALSE>>}
  ELSE IF t.done THEN {<<"ErrTxDone", FALSE>>}
  ELSE {<<Nil, TRUE>>, <<"driverErr", TRUE>>}

\* pgstx.QueryContext(*pgctx, query, args...) / pgstx.ExecContext(...) of scope i:
\* a nil *sql.Tx is dereferenced unless the cancelled context ends the call first.
StmtOutcomes(i) ==
  IF stx[i].tx
    THEN {[err |-> o[1], sent |-> o[2], panic |-> FALSE] : o \in TxExec(sqlTx[i])}
  ELSE IF ctxDone
    THEN {[err |-> "context canceled", sent |-> FALSE, panic |-> FALSE]}
    ELSE {[err |-> "panic", sent |-> FALSE, panic |-> TRUE]}

\* sqlQuery: "'" + arg.(string) + "'" panics on an argument that is not a string
SqlQueryPanics(args) == \E k \in 1..Len(args) : args[k] # "string"

\* if envDebug { defer sqlQuery(elapsed, query, args...) }: the deferred call runs
\* when sctxQuery or sctxExecute returns, after the statement
DeferredPanics(envDebug, args) == envDebug /\ SqlQueryPanics(args)

\* the panic that ends a call on scope i, or none
StmtPanic(o, envDebug, args) ==
  IF DeferredPanics(envDebug, args) THEN "interface conversion"
  ELSE IF o.panic THEN "nil pointer dereference"
  ELSE None

OpName(base, envDebug) == IF envDebug THEN base \o "Print" ELSE base

\* What a call that panicked gives its caller: nothing.
PanicResult == [row |-> NilRow, err |-> "panic"]

\* sctxQuery / sctxExecute as Query, QueryPrint, Execute and ExecutePrint call it
Statement(base, i, envDebug, args) ==
  /\ Alive /\ stx[i].made
  /\ \E o \in StmtOutcomes(i) :
       LET pn == StmtPanic(o, envDebug, args)
       IN  /\ last' = [op |-> OpName(base, envDebug), a |-> i,
                       b |-> IF o.sent THEN 1 ELSE 0,
                       res |-> IF pn # None THEN "panic" ELSE o.err]
           /\ panicked' = pn
           /\ call' = [args |-> args, db |-> <<o.err, o.sent>>]
  /\ UNCHANGED <<nvars, stx, sqlTx, ctxDone>>

\* Query (envDebug false) and QueryPrint (envDebug true)
Query(i, envDebug, args) == Statement("Query", i, envDebug, args)

\* Execute (envDebug false) and ExecutePrint (envDebug true)
Execute(i, envDebug, args) == Statement("Execute", i, envDebug, args)

\* QueryOne (envDebug false) and QueryOnePrint (envDebug true); cur is the cursor
\* the query gives when it succeeds
QueryOne(i, envDebug, args) ==
  /\ Alive /\ stx[i].made
  /\ \E o \in StmtOutcomes(i) :
     \E cur \in IF o.err = Nil THEN TxCursors ELSE {Cursor(<<>>, <<>>)} :
       LET pn == StmtPanic(o, envDebug, args)
           r == QueryOneRows([err |-> o.err, cur |-> cur])
       IN  /\ last' = [op |-> OpName("QueryOne", envDebug), a |-> i,
                       b |-> IF o.sent THEN 1 ELSE 0,
                       res |-> IF pn # None THEN PanicResult
                               ELSE [row |-> r.row, err |-> r.err]]
           /\ panicked' = pn
           /\ call' = [args |-> args, db |-> <<o.err, o.sent, cur, r.cur>>]
  /\ UNCHANGED <<nvars, stx, sqlTx, ctxDone>>

\* ------------------------------------------------------------ specifications
\* The notification channel while no event loop stays idle for a full interval.
\* LoopPing and Tick change only loop, sinceNotif and last.
Next ==
  \/ Hook
  \/ ConnectFail
  \/ ConnectOK
  \/ NotifyNil
  \/ \E n \in Names : Publish(n)
  \/ Forward
  \/ LinkDown
  \/ Disconnected
  \/ CreateReturn
  \/ \E n \in Names : ListenCall(n)
  \/ ListenWake
  \/ CloseFail
  \/ CloseLn
  \/ \E l \in Names : LoopRecv(l)

Spec == Init /\ [][Next]_vars

\* The notification channel with the clock of the idle timers.
NextTimed ==
  \/ Next
  \/ \E l \in Names : LoopPing(l)
  \/ Tick

SpecTimed == Init /\ [][NextTimed]_vars

\* The transaction scopes.
NextTx ==
  \/ \E i \in 1..MaxTx : Begin(i)
  \/ \E i \in 1..MaxTx : Commit(i)
  \/ \E i \in 1..MaxTx : Rollback(i)
  \/ \E i \in 1..MaxTx : AwaitDone(i)
  \/ CtxCancel
  \/ \E i \in 1..MaxTx, envDebug \in BOOLEAN, args \in ArgLists : Query(i, envDebug, args)
  \/ \E i \in 1..MaxTx, envDebug \in BOOLEAN, args \in ArgLists : QueryOne(i, envDebug, args)
  \/ \E i \in 1..MaxTx, envDebug \in BOOLEAN, args \in ArgLists : Execute(i, envDebug, args)

SpecTx == Init /\ [][NextTx]_vars

\* The row layer: the fetch functions applied to the cursors of InitRows.
NextRows ==
  \/ FetchRowOp
  \/ FetchAllOp
  \/ \E c \in FindCols : FetchOneColumnOp(c)
  \/ \E c \in FindCols, v \in FindVals : FindOp(c, v)

SpecRows == InitRows /\ [][NextRows]_vars

\* The goroutines are scheduled fairly: the listener's goroutine, the event
\* loops and the caller's pending returns take their next step when they can.
Fairness ==
  /\ WF_vars(Hook)
  /\ WF_vars(ConnectFail \/ ConnectOK)
  /\ WF_vars(NotifyNil)
  /\ WF_vars(Forward)
  /\ WF_vars(Disconnected)
  /\ WF_vars(CreateReturn)
  /\ WF_vars(ListenWake)
  /\ WF_vars(CloseLn)
  /\ \A l \in Names : WF_vars(LoopRecv(l))

FairSpec == Spec /\ Fairness

\* The types the switch of fetchRow has a case for.
KnownTypes == {"int64", "float64", "string", "[]uint8", "bool", "time.Time"}

\* What a column is to read as in the decoded row: the empty string for a null
\* or a value of an unknown type, the normalized string of the value otherwise.
Expected(val) == IF val.t \in KnownTypes THEN Normalize(val) ELSE ""

\* columns[i] is the last column of its name
LastOfName(columns, i) == \A k \in (i + 1)..Len(columns) : columns[k] # columns[i]

\* the names of columns are pairwise distinct
DistinctNames(columns) == \A i \in 1..Len(columns) : LastOfName(columns, i)

\* The row the last FetchRow has read, and the cursor's column names.
ReadRow == call.db.data[last.a]
ReadCols == call.db.cols

\* The rows a cursor has yet to give: none once it is closed.
Remaining(cur) ==
  IF cur.closed THEN <<>> ELSE SubSeq(cur.data, cur.pos + 1, Len(cur.data))

\* The decoding of a produced row that scans successfully.
Decoded(columns, raw) == MakeRow(DecodeFrom(columns, raw.vals, 1, EmptyMap))

\* The rows of a sequence that fail to decode.
Failing(rem) == {k \in 1..Len(rem) : rem[k].fault # Nil}

\* The calls that run a statement, by what they return: an error, or a Row and
\* an error.
StmtOps == {"Query", "QueryPrint", "Execute", "ExecutePrint"}
OneOps == {"QueryOne", "QueryOnePrint"}

\* What QueryOne returns for the outcome db of its query: nothing when the query
\* panics.
PlainQueryOne(db) ==
  IF db[1] = "panic" THEN PanicResult
  ELSE LET r == QueryOneRows([err |-> db[1], cur |-> db[3]])
       IN  [row |-> r.row, err |-> r.err]

TypeOK ==
  /\ Len(fail) <= FailCap
  /\ pcC \in {"create", "idle", "listenWait", "closeLn"}
  /\ pcL \in {"connect", "hook", "notifyNil", "forward", "done"}
  /\ Len(Notify) <= NotifyCap /\ Len(connBuf) <= ConnBufCap
  /\ \A n \in Names : loop[n] \in -1..IdleTimeout

Loops == {n \in Names : loop[n] >= 0}

\* ------------------------------------------------------------------ claims

\* C1: CreateChannel does not return before the hook has reported a first event,
\* returns once it has, and the error it returns is nil iff that first event is not
\* "connection attempt failed", and otherwise is exactly the error of that first
\* failed attempt.
C1_CreateReturnsFirstEvent ==
  /\ [](pcC # "create" =>
         /\ firstEv # NoEvent
         /\ (createErr = Nil) <=> (firstEv.type # "AttemptFailed")
         /\ firstEv.type = "AttemptFailed" => createErr = firstEv.err)
  /\ (firstEv # NoEvent) ~> (pcC # "create")

\* CreateChannel returns the error of the first failed attempt while the hook has
\* already buffered a later event.
C1_Witness ==
  /\ last.op = "CreateChannel" /\ last.res \in ConnErrs
  /\ firstEv.type = "AttemptFailed"
  /\ fail # <<>>

\* C2: once CreateChannel has returned, a call of the hook is never blocked on its
\* send: the failure-signal channel has room for the value of every later event.
C2_HookNeverBlocks ==
  (pcC # "create" /\ pcL = "hook" /\ ~failClosed) => Len(fail) < FailCap

\* C3: when Listen(n) had succeeded before the connection was lost and regained,
\* a notification for n that arrives on the regained connection is eventually
\* passed to a callback, unless the caller closes the channel.
C3_DeliveredAfterReconnect ==
  \A n \in Names :
    (connects = 2 /\ n \in resynced /\ connBuf # <<>> /\ Head(connBuf) = n /\ closeCalls = 0)
      ~> ((last.op = "callback" /\ last.b = n) \/ closeCalls > 0)

\* C4: a NotificationChannel never has more than one running event loop.
C4_AtMostOneLoop == Cardinality(Loops) <= 1

\* C5: a non-nil notification taken from the stream is passed to the callback that
\* Listen registered for the notification's channel name, and a nil one to none.
C5_CallbackOfItsName ==
  /\ last.op = "callback" => (last.b # NilN /\ last.a = last.b)
  /\ last.op = "skip" => last.b = NilN

\* C6: a ping is issued only when no notification was taken from the stream for
\* the full idle interval, and taking one restarts the interval.
C6_PingOnlyAfterIdleInterval ==
  /\ last.op = "ping" => last.b = IdleTimeout
  /\ last.op = "callback" => (sinceNotif = 0 /\ loop[last.a] = 0)

\* C7 as amended: a Listen whose subscribe call fails returns the error, starts no
\* event loop and leaves the listener closed for good, while the failure-signal
\* channel is left as it was (open, unless Close had closed it).
C7_FailedListenClosesListener ==
  /\ [][(last'.op = "Listen" /\ last'.res # Nil) =>
          (loop' = loop /\ lnClosed' /\ pcC' = "idle"
           /\ failClosed' = failClosed /\ fail' = fail)]_vars
  /\ [][lnClosed => lnClosed']_vars

\* A failed Listen has closed the listener; an earlier event loop is still there
\* and the failure-signal channel is open.
C7_Witness ==
  /\ last.op = "Listen" /\ last.res = "pqError"
  /\ lnClosed /\ ~failClosed /\ Loops # {}

\* C7 as stated: after a failed Listen the whole channel is closed as by Close:
\* the listener and the failure-signal channel.
C7_FailedListenClosesChannel ==
  [][(last'.op = "Listen" /\ last'.res # Nil) =>
       (loop' = loop /\ lnClosed' /\ failClosed')]_vars

\* C8: the first Close closes the failure-signal channel, then the listener, and
\* returns; a second Close panics at the close of the failure-signal channel.
C8_CloseOnce ==
  /\ (last.op = "Close" /\ last.a = 1) => (failClosed /\ Alive /\ pcC = "closeLn")
  /\ closeCalls = 1 => (failClosed /\ panicked # "close of closed channel")
  /\ last.op = "CloseReturn" => (closeCalls = 1 /\ failClosed /\ lnClosed /\ pcC = "idle")
  /\ closeCalls >= 2 => (panicked = "close of closed channel" /\ pcC = "idle")

\* The second Close has panicked.
C8_Witness ==
  /\ last.op = "Close" /\ last.a = 2
  /\ panicked = "close of closed channel" /\ failClosed /\ lnClosed

\* C9: once Commit or Rollback was called on a scope its Closed flag is true,
\* whatever the call returned, and a Closed flag never goes back to false.
C9_ClosedAfterTerminal ==
  /\ [](\A i \in 1..MaxTx : stx[i].called => stx[i].Closed)
  /\ [][\A i \in 1..MaxTx : stx[i].Closed => stx'[i].Closed]_vars

\* A Commit that failed in the driver has left its scope Closed.
C9_Witness ==
  /\ last.op = "Commit" /\ last.res = "driverErr"
  /\ stx[last.a].Closed

\* C10: a Commit or Rollback on a scope whose transaction was already committed or
\* rolled back returns an error and sends nothing more to the database.
C10_SecondTerminalFails ==
  (last.op \in {"Commit", "Rollback"} /\ last.b = 1) =>
    (last.res # Nil /\ sqlTx[last.a].dbOps = 1)

\* A Rollback after a successful Commit returned ErrTxDone.
C10_Witness ==
  /\ last.op = "Rollback" /\ last.b = 1 /\ last.res = "ErrTxDone"
  /\ stx[last.a].Closed /\ sqlTx[last.a].dbOps = 1

\* C18: the hook never sends on the failure-signal channel once Close has closed
\* it: the panic of a send on a closed channel is not reachable.
C18_NoSendOnClosed == panicked # "send on closed channel"

\* C19: a started event loop is never ended, by Close or by a failed Listen, and
\* once the listener has closed the stream it goes on taking what the stream
\* yields (nil), for as long as the process lives.
C19_LoopNeverEnds ==
  /\ [][\A l \in Names : loop[l] >= 0 => loop'[l] >= 0]_vars
  /\ \A l \in Names :
       (loop[l] >= 0 /\ notifyClosed) ~> ((last.op = "skip" /\ last.a = l) \/ ~Alive)

\* After Close has returned and the stream is closed, a loop takes a nil from it.
C19_Witness ==
  /\ last.op = "skip" /\ loop[last.a] >= 0
  /\ notifyClosed /\ failClosed /\ lnClosed /\ closeCalls = 1 /\ Alive

\* C20: when BeginTx fails, Begin calls it once only and returns its error as it
\* is, with a scope that holds no transaction and is not Closed.
C20_BeginFailure ==
  (last.op = "Begin" /\ call.db[1] # Nil) =>
    /\ last.res = call.db[1] /\ last.b = 1
    /\ stx[last.a].made /\ ~stx[last.a].tx /\ ~stx[last.a].Closed
    /\ sqlTx[last.a] = NoSqlTx

\* Begin has returned the error of a BeginTx that would have succeeded on a second call.
C20_Witness ==
  /\ last.op = "Begin" /\ last.res = "connErr"
  /\ call.db = <<"connErr", Nil>>
  /\ stx[last.a].made /\ ~stx[last.a].tx

\* C17 as amended: for a row that scans successfully and whose column names are
\* pairwise distinct, the decoded Row has every column name as a key, a null or
\* unrecognized-type column maps to the empty string and every other column to
\* the normalized string of its own value. When a name is repeated, the Row has
\* one key for it, which maps to the string of the last column of that name.
C17_DecodedRowOfDistinctColumns ==
  (last.op = "FetchRow" /\ ReadRow.fault = Nil) =>
    /\ last.res.err = Nil /\ ~last.res.row.isNil
    /\ DOMAIN last.res.row.m = {ReadCols[i] : i \in 1..Len(ReadCols)}
    /\ \A i \in 1..Len(ReadCols) :
         LastOfName(ReadCols, i) => last.res.row.m[ReadCols[i]] = Expected(ReadRow.vals[i])
    /\ DistinctNames(ReadCols) =>
         \A i \in 1..Len(ReadCols) : last.res.row.m[ReadCols[i]] = Expected(ReadRow.vals[i])

\* A row of an unrecognized uint64 and an int64 in columns a and b has been
\* decoded: a is blank and b holds its number.
C17_Witness ==
  /\ last.op = "FetchRow" /\ last.res.err = Nil
  /\ ReadCols = <<"a", "b">>
  /\ ReadRow.vals[1].t = "uint64" /\ ReadRow.vals[2] = [t |-> "int64", v |-> -12]
  /\ last.res.row.m["a"] = "" /\ last.res.row.m["b"] = "-12"

\* C17 as stated: for every row that scans successfully the decoded Row has every
\* column name as a key, and every column maps to the string of its own value
\* (empty for a null or an unrecognized type).
C17_DecodedRowOfAnyColumns ==
  (last.op = "FetchRow" /\ ReadRow.fault = Nil) =>
    /\ last.res.err = Nil /\ ~last.res.row.isNil
    /\ DOMAIN last.res.row.m = {ReadCols[i] : i \in 1..Len(ReadCols)}
    /\ \A i \in 1..Len(ReadCols) : last.res.row.m[ReadCols[i]] = Expected(ReadRow.vals[i])

\* C12: QueryOne on a query that gives no rows returns the error "empty record",
\* which is not the "QueryOne::"-prefixed error of a failed query, and QueryOne
\* never returns a nil Row together with a nil error.
C12_QueryOneEmptyRecord ==
  (last.op \in {"QueryOne", "QueryOnePrint"} /\ Alive) =>
    /\ (call.db[1] = Nil /\ call.db[3].data = <<>>) =>
         (last.res.err = "empty record" /\ last.res.row.isNil)
    /\ call.db[1] # Nil =>
         (last.res.err = "QueryOne::" \o call.db[1] /\ last.res.err # "empty record")
    /\ ~(last.res.row.isNil /\ last.res.err = Nil)

\* QueryOne has run a query that succeeded without rows.
C12_Witness ==
  /\ last.op = "QueryOne" /\ Alive /\ last.b = 1
  /\ call.db[1] = Nil /\ call.db[3].data = <<>>
  /\ last.res.err = "empty record" /\ last.res.row.isNil /\ call.db[4].closed

\* C13: FetchAll over a cursor with N remaining rows that all decode returns
\* exactly N rows, the i-th being the decoding of the i-th remaining row, and a
\* nil error.
C13_FetchAllInOrder ==
  [][(last'.op = "FetchAll" /\ Failing(Remaining(call.db)) = {}) =>
       /\ last'.res.err = Nil
       /\ last'.res.rows = [k \in 1..Len(Remaining(call.db)) |->
                              Decoded(call.db.cols, Remaining(call.db)[k])]]_vars

\* After a first row was read with FetchRow, FetchAll has returned the two
\* different rows that remained.
C13_Witness ==
  /\ last.op = "FetchAll" /\ last.a = 1 /\ last.b = 3
  /\ Len(last.res.rows) = 2 /\ last.res.rows[1] # last.res.rows[2]
  /\ last.res.rows[1] = Decoded(call.db.cols, call.db.data[2])

\* C14: when a row fails to decode during FetchAll the result is the empty
\* RecordSet, without the rows decoded before, and the cursor is left on the
\* first failing row: the rows after it are not read.
C14_FetchAllFailureEmpty ==
  [][(last'.op = "FetchAll" /\ Failing(Remaining(call.db)) # {}) =>
       /\ last'.res.rows = <<>>
       /\ \A k \in Failing(Remaining(call.db)) : call'.db.pos <= call.db.pos + k
       /\ call'.db.pos - call.db.pos \in Failing(Remaining(call.db))]_vars

\* FetchAll has decoded a first row, failed on the second and returned nothing,
\* leaving a third row unread.
C14_Witness ==
  /\ last.op = "FetchAll" /\ last.a = 0 /\ last.b = 2
  /\ call.db.data[1].fault = Nil /\ call.db.data[2].fault = "scanErr"
  /\ Len(call.db.data) = 3 /\ last.res.rows = <<>> /\ last.res.err = Nil

\* C15: Find(column, value) is true iff some row of the RecordSet has the column
\* as a key with exactly that value, for every column name and value, the empty
\* string and the names no row has included.
C15_FindIffKeyWithValue ==
  last.op = "Find" =>
    (last.res <=> \E i \in 1..Len(call.args[3]) :
                    /\ call.args[1] \in DOMAIN call.args[3][i].m
                    /\ call.args[3][i].m[call.args[1]] = call.args[2])

\* C11: on a scope whose Closed flag is true, every Query, QueryOne and Execute
\* call, and every Print variant of them, returns an error and sends no statement
\* to the database.
C11_ClosedScopeRejects ==
  /\ (last.op \in StmtOps /\ stx[last.a].Closed) =>
       (Alive /\ last.res \notin {Nil, "panic"} /\ last.b = 0)
  /\ (last.op \in OneOps /\ stx[last.a].Closed) =>
       (Alive /\ last.res.err \notin {Nil, "panic"} /\ last.res.row.isNil /\ last.b = 0)

\* C16: for every argument list, QueryPrint, ExecutePrint and QueryOnePrint send
\* the statement as Query, Execute and QueryOne do and return the same result and
\* error: what the plain call returns for the same answer of the database.
C16_PrintSameAsPlain ==
  /\ last.op \in {"QueryPrint", "ExecutePrint"} =>
       (last.res = call.db[1] /\ (Alive <=> call.db[1] # "panic"))
  /\ last.op = "QueryOnePrint" =>
       (last.res = PlainQueryOne(call.db) /\ (Alive <=> call.db[1] # "panic"))

====
